---- MODULE Spec2Model ----
(***************************************************************************)
(* A model of redis/distributed.py: the hash-tag regular expression        *)
(* KEY_TOKEN_RE, HashRingConnectionPool (construction, get_all_clients,    *)
(* get_client_for_key, get_client_map) and DistributedRedis (construction, *)
(* execute_command and the handlers installed for UNSAFE_COMMANDS).        *)
(* redis.hash_ring.HashRing, redis.client.Redis.encode and the replies of  *)
(* the per-node clients live in other modules of the package; they are     *)
(* modelled after the written design of the hash ring and of the client.   *)
(***************************************************************************)
EXTENDS Integers, Sequences, FiniteSets, TLC

VARIABLES pools, router, call, key, hashkey, located, keys, mapping

vars == <<pools, router, call, key, hashkey, located, keys, mapping>>

----------------------------------------------------------------------------
(* Bounds of the model                                                      *)

\* longest raw key handed to get_client_for_key
MaxKeyLen == 5
\* most node specs in one ``nodes`` list
MaxNodes == 2
\* most keys in one get_client_map call
MaxKeys == 3

----------------------------------------------------------------------------
(* Strings: a key is a sequence of characters                               *)

\* the two delimiters and one character of the class [^{}]
Chars == {"{", "}", "a"}

CharCode(c) ==
    CASE c = "{" -> 123
      [] c = "}" -> 125
      [] c = "a" -> 97
      [] c = "b" -> 98
      [] c = "c" -> 99
      [] c = "#" -> 35
      [] c = "." -> 46
      [] c = "-" -> 45
      [] c = "0" -> 48
      [] c = "1" -> 49
      [] c = "2" -> 50
      [] c = "3" -> 51
      [] c = "4" -> 52
      [] c = "5" -> 53
      [] OTHER -> 63

SeqsUpTo(S, n) == UNION {[1..m -> S] : m \in 0..n}

AllKeys == SeqsUpTo(Chars, MaxKeyLen)

----------------------------------------------------------------------------
(* KEY_TOKEN_RE = \{([^\}]+)\}  and  KEY_TOKEN_RE.search                    *)

NoMatch == [matched |-> FALSE]

\* the greedy run [^\}]+ : the first index >= i that holds "}" (or Len+1)
RECURSIVE RunEnd(_, _)
RunEnd(s, i) ==
    IF i > Len(s) THEN i
    ELSE IF s[i] = "}" THEN i
    ELSE RunEnd(s, i + 1)

\* the pattern anchored at index i: "{", one or more non-"}", "}"
KEY_TOKEN_RE_match(s, i) ==
    IF s[i] # "{" THEN NoMatch
    ELSE LET j == RunEnd(s, i + 1)
         IN  IF j > i + 1 /\ j <= Len(s)
             THEN [matched |-> TRUE, group |-> SubSeq(s, i + 1, j - 1)]
             ELSE NoMatch

\* search: the leftmost index at which the pattern matches
RECURSIVE SearchFrom(_, _)
SearchFrom(s, i) ==
    IF i > Len(s) THEN NoMatch
    ELSE LET m == KEY_TOKEN_RE_match(s, i)
         IN  IF m.matched THEN m ELSE SearchFrom(s, i + 1)

\* a plausible slip: ([^\}]*) in place of ([^\}]+), and the match replaces
\* the key even when its group is empty
KEY_TOKEN_RE_search_star(s) ==
    LET first == {i \in 1..Len(s) : s[i] = "{" /\ RunEnd(s, i + 1) <= Len(s)}
    IN  IF first = {} THEN NoMatch
        ELSE LET i == CHOOSE x \in first : \A y \in first : x <= y
             IN  [matched |-> TRUE, group |-> SubSeq(s, i + 1, RunEnd(s, i + 1) - 1)]

KEY_TOKEN_RE_search(s) == SearchFrom(s, 1)

----------------------------------------------------------------------------
(* redis.hash_ring.HashRing, after the written design: a sorted ring of     *)
(* virtual positions, weight * ReplicationFactor of them per node           *)

RingSize == 64
ReplicationFactor == 2

RECURSIVE HashFrom(_, _, _)
HashFrom(codes, i, h) ==
    IF i > Len(codes) THEN h
    ELSE HashFrom(codes, i + 1, ((h + codes[i]) * 37) % RingSize)

Hash(codes) == HashFrom(codes, 1, 5)

KeyCodes(s) == [i \in 1..Len(s) |-> CharCode(s[i])]

\* identity(node) + "#" + i ; a client <<p, n>> is the n-th client that the
\* pool object p created
NodePosition(client, i) == Hash(<<110, 48 + client[2], 35, 48 + i>>)

RingEntries(clients, weights) ==
    UNION {{<<NodePosition(clients[n], i), clients[n]>> :
                i \in 0..(ReplicationFactor * weights[n] - 1)} :
           n \in 1..Len(clients)}

EntryBefore(a, b) == a[1] < b[1] \/ (a[1] = b[1] /\ a[2][2] < b[2][2])

\* the entries sorted by position ascending
RECURSIVE SortEntries(_)
SortEntries(S) ==
    IF S = {} THEN <<>>
    ELSE LET m == CHOOSE a \in S : \A b \in S \ {a} : EntryBefore(a, b)
         IN  <<m>> \o SortEntries(S \ {m})

\* no ring: the hash_ring of a pool whose construction did not get that far
NoRing == [nodes |-> <<>>, ring |-> <<>>]

Ok(v) == [ok |-> TRUE, value |-> v]
Raised(e) == [ok |-> FALSE, exc |-> e]

\* HashRing(clients, weights): fails when there is no node or a weight <= 0
HashRing(clients, weights) ==
    IF Len(clients) = 0 \/ \E n \in 1..Len(clients) : weights[n] <= 0
    THEN Raised("ConfigurationError")
    ELSE Ok([nodes |-> clients,
             ring  |-> SortEntries(RingEntries(clients, weights))])

\* HashRing.get_node: the first entry whose position is >= hash(key),
\* wrapping to the first entry of the ring
get_node(hash_ring, k) ==
    LET h    == Hash(KeyCodes(k))
        ring == hash_ring.ring
        at   == {i \in 1..Len(ring) : ring[i][1] >= h}
        idx  == IF at = {} THEN 1 ELSE CHOOSE i \in at : \A j \in at : i <= j
    IN  ring[idx][2]

----------------------------------------------------------------------------
(* Names bound in the module redis/distributed.py, and ``raise``            *)

ModuleNames ==
    {"random", "re", "UnsafeMultiNodeCommandError", "Connection",
     "ConnectionPool", "Redis", "HashRing", "KEY_TOKEN_RE",
     "HashRingConnectionPool", "DistributedRedis", "unsafe_multinode_command",
     "cmd"}

\* raise Name(...): the name is looked up first; an unbound one is a NameError
RaiseNamed(name) ==
    IF name \in ModuleNames THEN Raised(name) ELSE Raised("NameError")

----------------------------------------------------------------------------
(* Node specs and int(node.get('weight', 1))                                *)

Absent      == [t |-> "absent", v |-> 0, s |-> <<>>]
IntW(n)     == [t |-> "int", v |-> n, s |-> <<>>]
\* a float, held in tenths: FloatW(15) is 1.5
FloatW(n)   == [t |-> "float", v |-> n, s |-> <<>>]
StrW(chars) == [t |-> "str", v |-> 0, s |-> chars]

WeightValues ==
    {Absent, IntW(1), IntW(2), IntW(0), IntW(-1), FloatW(15),
     StrW(<<"a", "b", "c">>), StrW(<<"2">>)}

NodeLists == SeqsUpTo(WeightValues, MaxNodes)

Digits == {"0", "1", "2", "3", "4", "5"}

RECURSIVE DigitsValue(_, _, _)
DigitsValue(s, i, acc) ==
    IF i > Len(s) THEN acc
    ELSE DigitsValue(s, i + 1, acc * 10 + (CharCode(s[i]) - 48))

\* int(x): an int is itself, a float is truncated towards zero, a string is
\* parsed as an optionally signed decimal or is a ValueError
PyInt(w) ==
    CASE w.t = "absent" -> Ok(1)
      [] w.t = "int"    -> Ok(w.v)
      [] w.t = "float"  -> Ok(IF w.v >= 0 THEN w.v \div 10 ELSE -((-w.v) \div 10))
      [] w.t = "str"    ->
            LET neg  == Len(w.s) > 0 /\ w.s[1] = "-"
                body == IF neg THEN Tail(w.s) ELSE w.s
            IN  IF Len(body) > 0 /\ \A i \in 1..Len(body) : body[i] \in Digits
                THEN Ok(IF neg THEN -DigitsValue(body, 1, 0)
                               ELSE DigitsValue(body, 1, 0))
                ELSE Raised("ValueError")

----------------------------------------------------------------------------
(* HashRingConnectionPool                                                   *)

\* the loop of __init__ over ``nodes``; p names the pool object under
\* construction, the n-th Redis(**params) it creates is the client <<p, n>>
RECURSIVE PoolLoop(_, _, _, _, _)
PoolLoop(p, nodes, i, clients, weights) ==
    IF i > Len(nodes)
    THEN [ok |-> TRUE, clients |-> clients, weights |-> weights]
    ELSE LET w == PyInt(nodes[i])
         IN  IF ~w.ok
             THEN [ok |-> FALSE, exc |-> RaiseNamed("RedisError").exc,
                   clients |-> clients]
             ELSE PoolLoop(p, nodes, i + 1,
                           Append(clients, <<p, i>>), Append(weights, w.value))

\* the pool object that HashRingConnectionPool(nodes) leaves, or the error
HashRingConnectionPool(p, nodes) ==
    LET loop == PoolLoop(p, nodes, 1, <<>>, <<>>)
    IN  IF ~loop.ok
        THEN [status |-> "error", exc |-> loop.exc, input |-> nodes,
              created |-> Len(loop.clients), hash_ring |-> NoRing]
        ELSE LET hr == HashRing(loop.clients, loop.weights)
             IN  IF ~hr.ok
                 THEN [status |-> "error", exc |-> hr.exc, input |-> nodes,
                       created |-> Len(loop.clients), hash_ring |-> NoRing]
                 ELSE [status |-> "ok", exc |-> "", input |-> nodes,
                       created |-> Len(loop.clients), hash_ring |-> hr.value]

NoPool == [status |-> "none", exc |-> "", input |-> <<>>, created |-> 0,
           hash_ring |-> NoRing]

get_all_clients_tail(pool) == Tail(pool.hash_ring.nodes)

get_all_clients(pool) == pool.hash_ring.nodes

\* lines 48-50 of get_client_for_key: the key that is handed to the ring
EffectiveKey(k) ==
    LET match == KEY_TOKEN_RE_search(k)
    IN  IF match.matched THEN match.group ELSE k

\* a lookup that forgets the shard hint and hashes the whole key
get_client_for_key_whole(pool, k) == get_node(pool.hash_ring, k)

get_client_for_key(pool, k) == get_node(pool.hash_ring, EffectiveKey(k))

\* mapping.setdefault(client, []).append(key): a group that starts over at
\* each key instead
MapAddOverwrite(m, client, k) ==
    [c \in DOMAIN m \cup {client} |-> IF c = client THEN <<k>> ELSE m[c]]

\* mapping.setdefault(get_client_for_key(key), []).append(key)
MapAdd(m, client, k) ==
    [c \in DOMAIN m \cup {client} |->
        IF c = client
        THEN (IF client \in DOMAIN m THEN Append(m[client], k) ELSE <<k>>)
        ELSE m[c]]

RECURSIVE MapLoop(_, _, _, _)
MapLoop(pool, ks, i, m) ==
    IF i > Len(ks) THEN m
    ELSE MapLoop(pool, ks, i + 1, MapAdd(m, get_client_for_key(pool, ks[i]), ks[i]))

EmptyMap == [c \in {} |-> <<>>]

get_client_map(pool, ks) == MapLoop(pool, ks, 1, EmptyMap)

----------------------------------------------------------------------------
(* DistributedRedis                                                         *)

MULTINODE_COMMANDS ==
    {"BGREWRITEAOF", "BGSAVE", "DBSIZE", "DEL", "FLUSHDB", "FLUSHALL",
     "INFO", "KEYS", "LASTSAVE", "PING", "SAVE"}

UNSAFE_COMMANDS ==
    {"BLPOP", "BRPOP", "LISTEN", "MGET", "MOVE", "MSET", "MSETNX",
     "RANDOMKEY", "RENAME", "RENAMENX", "RPOPLPUSH", "SDIFF",
     "SDIFFSTORE", "SINTER", "SINTERSTORE", "SMOVE", "SORT", "SUNION",
     "SUNIONSTORE"}

\* Redis.encode on a byte string: the string itself
encode(value) == value

\* what the client answers to a command: opaque to the router, it names the
\* client that answered and what it was sent
Reply(client, cmd, args) == [from |-> client, cmd |-> cmd, args |-> args]

Sent(client, cmd, args) == [client |-> client, cmd |-> cmd, args |-> args]

NoResult == [kind |-> "none", value |-> <<>>, exc |-> "", from |-> <<0, 0>>]

\* the state of one call of the router: where it is, the pool it read, the
\* list and the client it holds, the calls it made on clients, its outcome
NoCall ==
    [pc |-> "idle", via |-> "", cmd |-> "", args |-> <<>>, pool |-> 0,
     iter |-> <<>>, idx |-> 0, target |-> <<0, 0>>, replies |-> <<>>,
     contacted |-> <<>>, failed |-> <<0, 0>>, result |-> NoResult]

\* DistributedRedis.__init__(nodes, connection_pool): the router it leaves
\* and the pool it builds in ``slot`` when it is given none (given = 0)
DistributedRedis(nodes, given, slot) ==
    IF Len(nodes) = 0 /\ given = 0
    THEN [router |-> [status |-> "error", exc |-> RaiseNamed("RedisError").exc,
                      connection_pool |-> 0, nodes |-> nodes, given |-> given],
          built  |-> NoPool]
    ELSE IF given # 0
    THEN [router |-> [status |-> "ok", exc |-> "", connection_pool |-> given,
                      nodes |-> nodes, given |-> given],
          built  |-> NoPool]
    ELSE LET pool == HashRingConnectionPool(slot, nodes)
         IN  IF pool.status = "ok"
             THEN [router |-> [status |-> "ok", exc |-> "",
                               connection_pool |-> slot,
                               nodes |-> nodes, given |-> given],
                   built  |-> pool]
             ELSE [router |-> [status |-> "error", exc |-> pool.exc,
                               connection_pool |-> 0,
                               nodes |-> nodes, given |-> given],
                   built  |-> pool]

\* lines 118-119: the first argument always names the first client
ResolveSingleFirst(pool, args) == get_all_clients(pool)[1]

\* lines 118-119: key = self.encode(args[1]); get_client_for_key(key)
ResolveSingle(pool, args) == get_client_for_key(pool, encode(args[1]))

\* execute_command up to its first call on a client: the fan-out branch takes
\* the list of clients of the pool it reads, the default branch resolves the
\* client of the first argument (an IndexError when there is none)
BeginExecute(rtr, pls, cmd, args) ==
    LET p    == rtr.connection_pool
        base == [NoCall EXCEPT !.via = "execute_command", !.cmd = cmd,
                               !.args = args, !.pool = p]
    IN  IF cmd \in MULTINODE_COMMANDS
        THEN LET clients == get_all_clients(pls[p])
             IN  IF Len(clients) = 0
                 THEN [base EXCEPT !.pc = "done",
                                   !.result = [NoResult EXCEPT !.kind = "list"]]
                 ELSE [base EXCEPT !.pc = "fanout", !.iter = clients, !.idx = 1]
        ELSE IF Len(args) = 0
        THEN [base EXCEPT !.pc = "done",
                          !.result = [NoResult EXCEPT !.kind = "raise",
                                                      !.exc = "IndexError"]]
        ELSE [base EXCEPT !.pc = "single",
                          !.target = ResolveSingle(pls[p], args)]

\* the client of the next turn of the loop, were the list of clients read
\* again from the router at every turn
FanoutClientReread(c, rtr, pls) ==
    LET now == get_all_clients(pls[rtr.connection_pool])
    IN  IF c.idx <= Len(now) THEN now[c.idx] ELSE c.iter[c.idx]

\* the client of the next turn of the loop: the next element of the list
\* that get_all_clients() returned when the loop began
FanoutClient(c, rtr, pls) == c.iter[c.idx]

\* a loop that drops the error of a node and goes on with the next one
FanoutAfterSwallow(c, client, ok) ==
    LET sent    == [c EXCEPT !.contacted = Append(c.contacted,
                                                  Sent(client, c.cmd, c.args)),
                             !.failed = IF ok \/ c.failed # <<0, 0>>
                                        THEN c.failed ELSE client]
        replies == IF ok THEN Append(c.replies, Reply(client, c.cmd, c.args))
                   ELSE c.replies
    IN  IF c.idx = Len(c.iter)
        THEN [sent EXCEPT !.pc = "done", !.replies = replies,
                          !.result = [NoResult EXCEPT !.kind = "list",
                                                      !.value = replies]]
        ELSE [sent EXCEPT !.replies = replies, !.idx = c.idx + 1]

\* one turn of the list comprehension of lines 112-113: the call on the
\* client; its error leaves execute_command at once, its reply is appended,
\* and after the last client the list is returned
FanoutAfter(c, client, ok) ==
    LET sent == [c EXCEPT !.contacted = Append(c.contacted,
                                               Sent(client, c.cmd, c.args))]
    IN  IF ~ok
        THEN [sent EXCEPT !.pc = "done", !.failed = client,
                          !.result = [NoResult EXCEPT !.kind = "raise",
                                                      !.exc = "ConnectionError",
                                                      !.from = client]]
        ELSE LET replies == Append(c.replies, Reply(client, c.cmd, c.args))
             IN  IF c.idx = Len(c.iter)
                 THEN [sent EXCEPT !.pc = "done", !.replies = replies,
                                   !.result = [NoResult EXCEPT !.kind = "list",
                                                               !.value = replies]]
                 ELSE [sent EXCEPT !.replies = replies, !.idx = c.idx + 1]

\* line 120: return client.execute_command(*args, **options)
SingleAfter(c, ok) ==
    LET sent == [c EXCEPT !.pc = "done",
                          !.contacted = Append(c.contacted,
                                               Sent(c.target, c.cmd, c.args))]
    IN  IF ok
        THEN [sent EXCEPT !.result =
                 [NoResult EXCEPT !.kind = "reply",
                                  !.value = <<Reply(c.target, c.cmd, c.args)>>]]
        ELSE [sent EXCEPT !.failed = c.target,
                          !.result = [NoResult EXCEPT !.kind = "raise",
                                                      !.exc = "ConnectionError",
                                                      !.from = c.target]]

\* unsafe_multinode_command, installed under cmd.lower() for every unsafe cmd
unsafe_multinode_command(cmd, args) ==
    [NoCall EXCEPT !.pc = "done", !.via = "method", !.cmd = cmd, !.args = args,
                   !.result = [NoResult EXCEPT
                                  !.kind = "raise",
                                  !.exc = RaiseNamed("UnsafeMultiNodeCommandError").exc]]

----------------------------------------------------------------------------
(* States                                                                   *)

PoolIds == {1, 2}

\* no client: the value of ``located`` before a lookup
NoClient == <<0, 0>>
NoMapping == [done |-> FALSE, groups |-> EmptyMap]

\* node lists that make a ring: one to MaxNodes nodes of weight 1 or 2
RingNodeLists == SeqsUpTo({IntW(1), IntW(2)}, MaxNodes) \ {<<>>}

NoRouter == [status |-> "none", exc |-> "", connection_pool |-> 0,
             nodes |-> <<>>, given |-> 0]

\* the commands and the arguments that callers send
Commands == {"PING", "DEL", "MGET", "RENAME", "GET", "SET"}

RouterKeys == {<<"a">>, <<"b">>, <<"{", "a", "}", "b">>}

ArgLists ==
    {<<>>} \cup {<<k>> : k \in RouterKeys} \cup {<<k, <<"v">>>> : k \in RouterKeys}

----------------------------------------------------------------------------
(* Dispatch: a router over a pool, calls of execute_command, and new pools  *)
(* published while a call is under way                                      *)

Init ==
    /\ \E n1 \in RingNodeLists, n2 \in RingNodeLists :
          /\ pools = [p \in PoolIds |->
                         HashRingConnectionPool(p, IF p = 1 THEN n1 ELSE n2)]
          /\ router = DistributedRedis(<<>>, 1, 0).router
    /\ call = NoCall
    /\ key = <<>>
    /\ hashkey = <<>>
    /\ located = NoClient
    /\ keys = <<>>
    /\ mapping = NoMapping

\* a caller enters execute_command(cmd, *args)
Execute ==
    /\ call.pc = "idle"
    /\ router.status = "ok"
    /\ \E cmd \in Commands, args \in ArgLists :
          call' = BeginExecute(router, pools, cmd, args)
    /\ UNCHANGED <<pools, router, key, hashkey, located, keys, mapping>>

\* the call on the next client of the fan-out; the node answers or fails
FanoutStep ==
    /\ call.pc = "fanout"
    /\ \E ok \in BOOLEAN :
          call' = FanoutAfter(call, FanoutClient(call, router, pools), ok)
    /\ UNCHANGED <<pools, router, key, hashkey, located, keys, mapping>>

\* the call on the one client of a keyed command; the node answers or fails
SingleStep ==
    /\ call.pc = "single"
    /\ \E ok \in BOOLEAN : call' = SingleAfter(call, ok)
    /\ UNCHANGED <<pools, router, key, hashkey, located, keys, mapping>>

\* a caller uses the method of an unsafe command, router.mget(...)
UnsafeMethod ==
    /\ call.pc = "idle"
    /\ router.status = "ok"
    /\ \E cmd \in Commands \cap UNSAFE_COMMANDS, args \in ArgLists :
          call' = unsafe_multinode_command(cmd, args)
    /\ UNCHANGED <<pools, router, key, hashkey, located, keys, mapping>>

\* the caller has its reply or its error
Return ==
    /\ call.pc = "done"
    /\ call' = NoCall
    /\ UNCHANGED <<pools, router, key, hashkey, located, keys, mapping>>

\* a topology change: another pool becomes the router's connection_pool
Publish ==
    /\ router.status = "ok"
    /\ \E p \in PoolIds :
          /\ p # router.connection_pool
          /\ pools[p].status = "ok"
          /\ router' = [router EXCEPT !.connection_pool = p]
    /\ UNCHANGED <<pools, call, key, hashkey, located, keys, mapping>>

Next ==
    \/ Execute
    \/ FanoutStep
    \/ SingleStep
    \/ UnsafeMethod
    \/ Return
    \/ Publish

Spec == Init /\ [][Next]_vars

----------------------------------------------------------------------------
(* Construction: HashRingConnectionPool(nodes) and DistributedRedis(...)    *)

InitCtor ==
    /\ pools = [p \in PoolIds |-> NoPool]
    /\ router = NoRouter
    /\ call = NoCall
    /\ key = <<>>
    /\ hashkey = <<>>
    /\ located = NoClient
    /\ keys = <<>>
    /\ mapping = NoMapping

\* a caller builds a pool of its own
NewPool ==
    /\ pools[1].status = "none"
    /\ \E nodes \in NodeLists :
          pools' = [pools EXCEPT ![1] = HashRingConnectionPool(1, nodes)]
    /\ UNCHANGED <<router, call, key, hashkey, located, keys, mapping>>

\* a caller builds the router, with the pool it built or with none
NewRouter ==
    /\ router.status = "none"
    /\ \E nodes \in NodeLists, given \in {0} \cup {p \in {1} : pools[p].status = "ok"} :
          LET made == DistributedRedis(nodes, given, 2)
          IN  /\ router' = made.router
              /\ pools' = [pools EXCEPT ![2] = made.built]
    /\ UNCHANGED <<call, key, hashkey, located, keys, mapping>>

NextCtor == NewPool \/ NewRouter

SpecCtor == InitCtor /\ [][NextCtor]_vars

----------------------------------------------------------------------------
(* Key lookups: get_client_for_key on one key, over a fixed ring            *)

InitKey ==
    /\ \E nodes \in RingNodeLists :
          pools = [p \in PoolIds |->
                      IF p = 1 THEN HashRingConnectionPool(1, nodes) ELSE NoPool]
    /\ router = NoRouter
    /\ call = NoCall
    /\ key \in AllKeys
    /\ hashkey = <<>>
    /\ located = NoClient
    /\ keys = <<>>
    /\ mapping = NoMapping

LocateKey ==
    /\ located = NoClient
    /\ hashkey' = EffectiveKey(key)
    /\ located' = get_client_for_key(pools[1], key)
    /\ UNCHANGED <<pools, router, call, key, keys, mapping>>

NextKey == LocateKey

SpecKey == InitKey /\ [][NextKey]_vars

----------------------------------------------------------------------------
(* Batches: get_client_map on a sequence of keys, over a fixed ring         *)

\* the keys of batches: plain keys, keys that carry a tag, an empty tag
BatchKeys ==
    {<<"a">>, <<"b">>, <<"{", "a", "}", "b">>, <<"b", "{", "a", "}">>,
     <<"{", "b", "}", "a">>, <<"{", "}", "a">>}

InitMap ==
    /\ \E nodes \in RingNodeLists :
          pools = [p \in PoolIds |->
                      IF p = 1 THEN HashRingConnectionPool(1, nodes) ELSE NoPool]
    /\ router = NoRouter
    /\ call = NoCall
    /\ key = <<>>
    /\ hashkey = <<>>
    /\ located = NoClient
    /\ keys \in SeqsUpTo(BatchKeys, MaxKeys)
    /\ mapping = NoMapping

GroupKeys ==
    /\ ~mapping.done
    /\ mapping' = [done |-> TRUE, groups |-> get_client_map(pools[1], keys)]
    /\ UNCHANGED <<pools, router, call, key, hashkey, located, keys>>

NextMap == GroupKeys

SpecMap == InitMap /\ [][NextMap]_vars

----------------------------------------------------------------------------
(* Hash tags, stated on the characters of the key                           *)

\* the brace-delimited occurrences with content: <<i, j>> with "{" at i, the
\* next "}" at j, and at least one character between them
Occurrences(k) ==
    {o \in (1..Len(k)) \X (1..Len(k)) :
        /\ k[o[1]] = "{"
        /\ k[o[2]] = "}"
        /\ o[2] > o[1] + 1
        /\ \A m \in (o[1] + 1)..(o[2] - 1) : k[m] # "}"}

HasLeadTag(k) == Occurrences(k) # {}

\* the content of the leftmost such occurrence
LeadTag(k) ==
    LET o == CHOOSE x \in Occurrences(k) : \A y \in Occurrences(k) : x[1] <= y[1]
    IN  SubSeq(k, o[1] + 1, o[2] - 1)

\* tags as a caller writes them: one or more characters, no brace
TagWords == SeqsUpTo(Chars \ {"{", "}"}, MaxKeyLen - 2) \ {<<>>}

\* k contains {t} somewhere
ContainsTag(k, t) ==
    \E i \in 1..Len(k) :
        /\ i + Len(t) + 1 <= Len(k)
        /\ k[i] = "{"
        /\ SubSeq(k, i + 1, i + Len(t)) = t
        /\ k[i + Len(t) + 1] = "}"

\* C4 as claimed: every key that contains a tag {t}, t not empty, lands on the
\* client of t, and on the client of every other key that contains {t}
C4_AnyTagColocates ==
    located # NoClient =>
        \A t \in TagWords :
            ContainsTag(key, t) =>
                /\ located = get_client_for_key(pools[1], t)
                /\ \A key2 \in AllKeys :
                      ContainsTag(key2, t) =>
                          get_client_for_key(pools[1], key2) = located

\* C4 as amended: a key whose leftmost brace-delimited occurrence with content
\* is {t} lands on the client of t, and on the client of every other key
\* whose leftmost such occurrence is {t}
C4_LeadTagColocates ==
    (located # NoClient /\ HasLeadTag(key)) =>
        /\ located = get_client_for_key(pools[1], LeadTag(key))
        /\ \A key2 \in AllKeys :
              (HasLeadTag(key2) /\ LeadTag(key2) = LeadTag(key)) =>
                  get_client_for_key(pools[1], key2) = located

\* a tagged key was looked up, and its tag moved it: the whole key would
\* have gone to another client of the ring
C4_Witness ==
    /\ located # NoClient
    /\ HasLeadTag(key)
    /\ LeadTag(key) \in TagWords
    /\ Len(key) > Len(LeadTag(key)) + 2
    /\ get_node(pools[1].hash_ring, key) # located

\* the first "{" of the key and the first "}" after it
FirstOpen(k) ==
    CHOOSE i \in 1..Len(k) : k[i] = "{" /\ \A m \in 1..(i - 1) : k[m] # "{"

\* C5 as claimed, the key that is hashed: the content of the first
\* brace-delimited occurrence when it is well formed and not empty, the whole
\* key when that first occurrence is empty, unbalanced or nested, whatever
\* follows it, and the whole key when there is no delimiter
FirstOccurrenceKey(k) ==
    IF \A i \in 1..Len(k) : k[i] # "{" THEN k
    ELSE LET i == FirstOpen(k)
             j == RunEnd(k, i + 1)
         IN  IF j > Len(k) THEN k
             ELSE IF j = i + 1 THEN k
             ELSE IF \E m \in (i + 1)..(j - 1) : k[m] = "{" THEN k
             ELSE SubSeq(k, i + 1, j - 1)

C5_FirstOccurrenceOnly ==
    located # NoClient => hashkey = FirstOccurrenceKey(key)

\* C5 as amended: the key that is hashed is the content of the leftmost
\* occurrence of "{", one or more characters other than "}", "}"; an empty {}
\* is passed over, so a later {tag} counts; without such an occurrence the
\* whole key is hashed
C5_LeftmostMatch ==
    located # NoClient =>
        hashkey = (IF HasLeadTag(key) THEN LeadTag(key) ELSE key)

\* a key that opens with {} was looked up and a later tag was hashed
C5_Witness ==
    /\ located # NoClient
    /\ Len(key) >= 2
    /\ key[1] = "{"
    /\ key[2] = "}"
    /\ hashkey \in TagWords

----------------------------------------------------------------------------
(* Batches, stated on the input sequence                                    *)

\* C9: get_client_map partitions the keys by owning client: the clients of
\* the mapping are exactly the clients that own some key, and the group of a
\* client is the input sequence restricted to the keys it owns, every
\* occurrence kept, in input order
C9_Partition ==
    mapping.done =>
        LET owner(k) == get_client_for_key(pools[1], k)
            g        == mapping.groups
        IN  /\ DOMAIN g = {owner(keys[i]) : i \in 1..Len(keys)}
            /\ \A c \in DOMAIN g :
                  g[c] = SelectSeq(keys, LAMBDA k : owner(k) = c)

\* a batch was split over two clients and one of them got several keys
C9_Witness ==
    /\ mapping.done
    /\ Cardinality(DOMAIN mapping.groups) >= 2
    /\ \E c \in DOMAIN mapping.groups : Len(mapping.groups[c]) >= 2

----------------------------------------------------------------------------
(* Dispatch, stated on the calls that reached the clients                   *)

ViaExecute == call.via = "execute_command"

\* the clients of pool p, in the order in which its nodes were given
ClientsOf(p) == [i \in 1..Len(pools[p].input) |-> <<p, i>>]

\* C1 as claimed: a command of the unsafe set that goes through
\* execute_command raises UnsafeMultiNodeCommandError and calls no client
C1_UnsafeRejected ==
    (ViaExecute /\ call.pc = "done" /\ call.cmd \in UNSAFE_COMMANDS) =>
        /\ call.result.kind = "raise"
        /\ call.result.exc = "UnsafeMultiNodeCommandError"
        /\ call.contacted = <<>>

\* C2: a fan-out command none of whose node calls fails returns one reply per
\* configured node, the i-th the reply of the i-th node in construction
\* order, and has called each client once with the command and its arguments
C2_FanoutReplies ==
    (ViaExecute /\ call.pc = "done" /\ call.cmd \in MULTINODE_COMMANDS
                /\ call.failed = NoClient) =>
        LET nodes == ClientsOf(call.pool)
        IN  /\ call.result.kind = "list"
            /\ call.result.value =
                  [i \in 1..Len(nodes) |-> Reply(nodes[i], call.cmd, call.args)]
            /\ call.contacted =
                  [i \in 1..Len(nodes) |-> Sent(nodes[i], call.cmd, call.args)]

\* a fan-out over two nodes returned its list
C2_Witness ==
    /\ ViaExecute
    /\ call.pc = "done"
    /\ call.cmd \in MULTINODE_COMMANDS
    /\ call.result.kind = "list"
    /\ Len(call.result.value) >= 2
    /\ Len(call.args) >= 1

\* C3: a command outside both sets that carries a first argument calls one
\* client, the owner of that argument, with the command and all its
\* arguments, and hands back what that client answered (or its error)
C3_SingleClient ==
    (ViaExecute /\ call.pc = "done" /\ call.cmd \notin MULTINODE_COMMANDS
                /\ call.cmd \notin UNSAFE_COMMANDS /\ Len(call.args) >= 1) =>
        LET owner == get_client_for_key(pools[call.pool], call.args[1])
        IN  /\ call.contacted = <<Sent(owner, call.cmd, call.args)>>
            /\ \/ /\ call.result.kind = "reply"
                  /\ call.result.value = <<Reply(owner, call.cmd, call.args)>>
               \/ /\ call.result.kind = "raise"
                  /\ call.failed = owner
                  /\ call.result.from = owner

\* a keyed command with a tagged key got its reply from a client that is not
\* the first of its pool
C3_Witness ==
    /\ ViaExecute
    /\ call.pc = "done"
    /\ call.cmd = "GET"
    /\ call.args = <<<<"{", "a", "}", "b">>>>
    /\ call.result.kind = "reply"
    /\ call.result.value[1].from # <<call.pool, 1>>

\* C8: when the call on a client fails during a fan-out, execute_command is
\* over with that client's error and no list of replies; the clients before
\* it in the enumeration were called once each, in order, and none after it
C8_FanoutAborts ==
    (ViaExecute /\ call.cmd \in MULTINODE_COMMANDS /\ call.failed # NoClient) =>
        LET nodes == get_all_clients(pools[call.pool])
        IN  /\ call.pc = "done"
            /\ call.result.kind = "raise"
            /\ call.result.from = call.failed
            /\ call.result.value = <<>>
            /\ \E i \in 1..Len(nodes) :
                  /\ nodes[i] = call.failed
                  /\ call.contacted =
                        [j \in 1..i |-> Sent(nodes[j], call.cmd, call.args)]

\* the first of two nodes failed, the second was never called
C8_Witness ==
    /\ ViaExecute
    /\ call.cmd \in MULTINODE_COMMANDS
    /\ call.failed # NoClient
    /\ Len(call.contacted) < Len(call.iter)

\* C10: whatever pool is published while a call is under way, the call
\* contacts clients of the one pool it read: a keyed call one of them, a
\* fan-out that returns all of them and no other
C10_OneSnapshot ==
    ViaExecute =>
        LET mine == {<<call.pool, i>> : i \in 1..pools[call.pool].created}
            seen == {call.contacted[i].client : i \in 1..Len(call.contacted)}
        IN  /\ seen \subseteq mine
            /\ (call.pc = "done" /\ call.result.kind = "list") => seen = mine
            /\ (call.pc = "done" /\ call.result.kind = "reply") =>
                  Cardinality(seen) = 1

\* a fan-out over two nodes returned after another pool had been published
\* in the middle of it
C10_Witness ==
    /\ ViaExecute
    /\ call.pc = "done"
    /\ call.result.kind = "list"
    /\ Len(call.contacted) >= 2
    /\ router.connection_pool # call.pool

----------------------------------------------------------------------------
(* Construction, stated on what the constructors leave                      *)

ConfigurationErrors == {"RedisError", "ConfigurationError"}

\* C6 as claimed: without nodes and without a pool the router fails with the
\* configuration error before it creates a pool; with a pool it is built
\* and uses that pool
C6_RouterConstruction ==
    router.status # "none" =>
        /\ (Len(router.nodes) = 0 /\ router.given = 0) =>
              /\ router.status = "error"
              /\ router.exc \in ConfigurationErrors
              /\ pools[2].status = "none"
        /\ router.given # 0 =>
              /\ router.status = "ok"
              /\ router.connection_pool = router.given
              /\ pools[2].status = "none"

\* a weight that is no positive integer: a string that is no number, a
\* fraction, or a number <= 0
NotPositiveInteger(w) ==
    CASE w.t = "absent" -> FALSE
      [] w.t = "int"    -> w.v <= 0
      [] w.t = "float"  -> w.v <= 0 \/ w.v % 10 # 0
      [] w.t = "str"    -> ~PyInt(w).ok \/ PyInt(w).value <= 0

\* C7 as claimed: a pool given a node whose weight is no positive integer
\* fails with the configuration error and builds no ring
C7_BadWeightRejected ==
    \A p \in PoolIds :
        (pools[p].status # "none" /\
         \E i \in 1..Len(pools[p].input) : NotPositiveInteger(pools[p].input[i])) =>
            /\ pools[p].status = "error"
            /\ pools[p].exc \in ConfigurationErrors
            /\ pools[p].hash_ring = NoRing

====
